---- MODULE Spec2Model ----
(***************************************************************************)
(* Fredly News Bot (src/main.py): the main thread and the runs of job().    *)
(*                                                                         *)
(*   get_api_url -> step1_scan_headlines -> step2_select_topics ->         *)
(*   step3_deep_research -> step4_write_scripts -> send_to_user            *)
(*                                                                         *)
(* The external services (feeds, generation service, speech synthesis,     *)
(* ffmpeg, Telegram) answer nondeterministically.  What the feeds hold at  *)
(* the time of a run is part of the state (feeds, search).                 *)
(***************************************************************************)
EXTENDS Integers, Sequences, FiniteSets, TLC

VARIABLES
    pc,        \* position of the main thread in job() / the main loop
    feeds,     \* world: what feedparser.parse gives for each RSS_POOLS url
    search,    \* world: what the topic search feed gives for each topic
    api,       \* job: api            (None or the generateContent url)
    headlines, \* job: headlines      (return value of step1_scan_headlines)
    raw,       \* step2: raw          (what call_gemini returned to step2)
    topics,    \* job: topics         (return value of step2_select_topics)
    data,      \* job: data           (return value of step3_deep_research)
    txt,       \* job: txt            (step4: text)
    cn,        \* job: c              (step4: cn)
    en,        \* job: e              (step4: en)
    feedIdx,   \* step1: how many entries of RSS_POOLS the loop has handled
    combined,  \* step1: combined
    attempt,   \* call_gemini: the loop variable attempt
    waits,     \* call_gemini: the sleeps of the current invocation, in order
    resps,     \* call_gemini: the responses of the current invocation, in order
    ret,       \* call_gemini: value returned to the caller
    fstate,    \* step3: state of each submitted future
    results,   \* step3: results
    files,     \* files present in OUTPUT_DIR
    sent,      \* what the Telegram bot has been asked to send, in order
    stages,    \* stages of the run entered so far, in order
    ops,       \* kinds of external operation carried out in this run
    entry,     \* is_recent: the entry it is applied to
    hours,     \* is_recent: the hours argument
    recent,    \* is_recent: its return value
    main,      \* __main__: "run_now" before the RUN_NOW test, then "loop"
    due,       \* schedule: the daily job is due (its time has come)
    trigger,   \* who called the job() that is running, "none" outside job()
    active,    \* number of calls of job() entered and not yet returned
    timeline,  \* generation calls, their returns and the cooldown sleeps
               \* of this run, in order
    raised     \* the call whose exception job() has caught ("Critical Job
               \* Error"), "none" when there is none

vars == <<pc, feeds, search, api, headlines, raw, topics, data, txt, cn, en,
          feedIdx, combined, attempt, waits, resps, ret, fstate, results,
          files, sent, stages, ops, entry, hours, recent,
          main, due, trigger, active, timeline, raised>>

\* The state of the main thread around job().
sched == <<main, due, trigger, active>>

\* Python's None, for the variables that hold a string.
None == "None"
\* ret while the loop of call_gemini is still running
Pending == "<pending>"

(***************************************************************************)
(* Bounds of the model.                                                    *)
(***************************************************************************)
\* Entries the four feeds hold in total, in the scan specification.
MaxEntries == 2
\* Largest age, in hours, of an entry in the is_recent specification.
MaxAge == 50

(***************************************************************************)
(* UTILS: is_recent                                                        *)
(***************************************************************************)
\* Entry.published: an age in hours (now - pub_time), or one of
NoTime == -1   \* no published_parsed attribute, or a falsy one
BadTime == -2  \* mktime(published_parsed) raises

\* timedelta(hours=26) of line 81
RecencyHours == 26

is_recent(e, hrs) ==
    IF e.published = NoTime THEN TRUE
    ELSE IF e.published = BadTime THEN TRUE
    ELSE e.published < RecencyHours

(***************************************************************************)
(* RSS SOURCES and the feeds' contents                                     *)
(***************************************************************************)
\* RSS_POOLS.items(), in insertion order
CatOrder == <<"BUSINESS", "POLITICS", "CHINA", "SPORTS">>
Cats == {CatOrder[i] : i \in 1..Len(CatOrder)}

\* A raw entry title is the sequence of its pieces between " - " separators:
\* "A - Reuters" is <<"A", "Reuters">>.
RawTitles == {<<"A">>, <<"A", "Reuters">>, <<"B">>}
ScanAges == {1, 30}
ScanEntry == [title : RawTitles, published : ScanAges]

\* What feedparser.parse(url) gives: ok = FALSE when the fetch fails.
FeedDown == [ok |-> FALSE, entries |-> <<>>]
FeedOf(es) == [ok |-> TRUE, entries |-> es]

SeqUpTo(S, n) == UNION {[1..k -> S] : k \in 0..n}

\* The entries of the flat list fl (pairs <<category, entry>>) that cat holds.
RECURSIVE EntriesOf(_, _)
EntriesOf(fl, cat) ==
    IF fl = <<>> THEN <<>>
    ELSE IF Head(fl)[1] = cat THEN <<Head(fl)[2]>> \o EntriesOf(Tail(fl), cat)
    ELSE EntriesOf(Tail(fl), cat)

\* Every content of the four feeds with at most MaxEntries entries in total;
\* a feed without entries may also be down.
ScanWorlds ==
    {[c \in Cats |-> IF c \in down /\ EntriesOf(fl, c) = <<>>
                     THEN FeedDown ELSE FeedOf(EntriesOf(fl, c))] :
        fl \in SeqUpTo(Cats \X ScanEntry, MaxEntries), down \in SUBSET Cats}

\* The feeds of the pipeline specification: all down; one recent entry in
\* CHINA; only a stale entry in CHINA.
AllDown == [c \in Cats |-> FeedDown]
JobWorlds ==
    {AllDown,
     [c \in Cats |-> IF c = "CHINA"
                     THEN FeedOf(<<[title |-> <<"A", "Reuters">>, published |-> 1]>>)
                     ELSE FeedOf(<<>>)],
     [c \in Cats |-> IF c = "CHINA"
                     THEN FeedOf(<<[title |-> <<"B">>, published |-> 30]>>)
                     ELSE FeedDown]}

(***************************************************************************)
(* PIPELINE: step1_scan_headlines                                          *)
(***************************************************************************)
\* if count >= 15: break
PerCategoryCap == 15
\* combined[:60]
OverallCap == 60

\* title = e.get("title", "").split(" - ")[0]
NormTitle(e) == Head(e.title)

\* f"{prefix} {title}"
HeadlineOf(cat, e) == <<cat, NormTitle(e)>>

\* The body of "for e in d.entries", from count headlines already appended.
RECURSIVE ScanEntries(_, _, _)
ScanEntries(cat, es, count) ==
    IF es = <<>> THEN <<>>
    ELSE LET e == Head(es)
             rec == is_recent(e, 24)
             n == IF rec THEN count + 1 ELSE count
         IN (IF rec THEN <<HeadlineOf(cat, e)>> ELSE <<>>)
            \o (IF n >= PerCategoryCap THEN <<>>
                ELSE ScanEntries(cat, Tail(es), n))

\* One iteration of "for cat, url in RSS_POOLS.items()": what it appends.
ScanOneFeed(cat, feed) ==
    IF feed.ok THEN ScanEntries(cat, feed.entries, 0) ELSE <<>>

\* random.shuffle(combined): every order of combined.
Shuffles(s) ==
    {[i \in 1..Len(s) |-> s[p[i]]] : p \in Permutations(1..Len(s))}

\* combined[:60]
Truncate(s, n) == IF Len(s) <= n THEN s ELSE SubSeq(s, 1, n)

\* step1: one feed fetched and filtered.
ScanFeed ==
    /\ pc = "scan"
    /\ feedIdx < Len(CatOrder)
    /\ LET cat == CatOrder[feedIdx + 1] IN
           combined' = combined \o ScanOneFeed(cat, feeds[cat])
    /\ feedIdx' = feedIdx + 1
    /\ ops' = ops \cup {"feed"}
    /\ UNCHANGED <<pc, feeds, search, api, headlines, raw, topics, data, txt, cn, en,
                   attempt, waits, resps, ret, fstate, results, files, sent,
                   stages, entry, hours, recent, sched, timeline, raised>>

\* Faulty variant of NonEmpty: the early return is never taken.
AlwaysNonEmpty(s) == TRUE

\* job: the negation of "if not headlines: return" and "if not data: return"
NonEmpty(s) == s # <<>>

\* step1: shuffle, truncate, return; job: "if not headlines: return".
ScanReturn ==
    /\ pc = "scan"
    /\ feedIdx = Len(CatOrder)
    /\ \E sh \in Shuffles(combined) :
           /\ headlines' = Truncate(sh, OverallCap)
           /\ IF ~NonEmpty(headlines')
              THEN /\ pc' = "FAILED"
                   /\ UNCHANGED <<stages, attempt, waits, resps, ret>>
              ELSE /\ pc' = "select"
                   /\ stages' = Append(stages, "select")
                   /\ attempt' = 0
                   /\ waits' = <<>>
                   /\ resps' = <<>>
                   /\ ret' = Pending
    /\ feedIdx' = 0
    /\ combined' = <<>>
    /\ UNCHANGED <<feeds, search, api, raw, topics, data, txt, cn, en,
                   fstate, results, files, sent, ops, entry, hours, recent,
                   sched, timeline, raised>>

(***************************************************************************)
(* GEMINI ENGINE: get_api_url                                              *)
(***************************************************************************)
\* priority of line 113
Priority == <<"gemini-1.5-flash", "gemini-2.5-flash", "gemini-1.5-pro">>

\* "p in m" for the model names of the model
Contains(m, p) ==
    \/ m = "models/gemini-1.5-flash-8b" /\ p = "gemini-1.5-flash"
    \/ m = "models/gemini-1.5-pro" /\ p = "gemini-1.5-pro"

\* Answers of GET {BASE_URL}/models: the request raises, a status other than
\* 200, or a list of models (gen: supports generateContent).
ModelLists ==
    {<<>>,
     <<[name |-> "models/embedding-001", gen |-> FALSE]>>,
     <<[name |-> "models/embedding-001", gen |-> FALSE],
       [name |-> "models/text-bison", gen |-> TRUE]>>,
     <<[name |-> "models/gemini-1.5-pro", gen |-> TRUE],
       [name |-> "models/gemini-1.5-flash-8b", gen |-> TRUE]>>}
ModelsAnswers ==
    {[kind |-> "neterr", models |-> <<>>], [kind |-> "status", models |-> <<>>]}
    \cup {[kind |-> "ok", models |-> ms] : ms \in ModelLists}

\* cands = [m["name"] for m in models if "generateContent" in ...]
Cands(ms) ==
    LET gens == SelectSeq(ms, LAMBDA m : m.gen)
    IN [i \in 1..Len(gens) |-> gens[i].name]

\* next((m for p in priority for m in cands if p in m), None), then cands[0]
Chosen(cands) ==
    LET hits == {<<i, j>> \in (1..Len(Priority)) \X (1..Len(cands)) :
                    Contains(cands[j], Priority[i])}
    IN IF hits # {}
       THEN LET first == CHOOSE h \in hits : \A g \in hits :
                             h[1] < g[1] \/ (h[1] = g[1] /\ h[2] <= g[2])
            IN cands[first[2]]
       ELSE IF cands # <<>> THEN cands[1] ELSE None

get_api_url(ans) ==
    IF ans.kind = "ok" THEN Chosen(Cands(ans.models)) ELSE None

\* job: api = get_api_url(); "if not api: return"; step1 is entered.
GetApiUrl ==
    /\ pc = "get_api"
    /\ \E ans \in ModelsAnswers :
           /\ api' = get_api_url(ans)
           /\ ops' = ops \cup {"models"}
           /\ IF api' = None
              THEN /\ pc' = "FAILED"
                   /\ UNCHANGED stages
              ELSE /\ pc' = "scan"
                   /\ stages' = Append(stages, "scan")
    /\ UNCHANGED <<feeds, search, headlines, raw, topics, data, txt, cn, en, feedIdx,
                   combined, attempt, waits, resps, ret, fstate, results,
                   files, sent, entry, hours, recent, sched, timeline, raised>>

(***************************************************************************)
(* GEMINI ENGINE: call_gemini                                              *)
(***************************************************************************)
\* for attempt in range(3)
MaxAttempts == 3
\* wait = (attempt + 1) * 20
RateLimitBase == 20
\* time.sleep(5) of the except branch
NetErrorSleep == 5

\* The positions of job() inside a call_gemini invocation, and the invocation
\* each is in.
GenPcs == {"select", "brief", "cn_script", "en_script"}

\* What SESSION.post gives call_gemini:
\*   ok        status 200 and a body holding candidates[0].content.parts[0].text
\*   malformed status 200 and a body without these fields (KeyError/IndexError)
\*   r429      status 429
\*   status    another status (400, 403, 404, ...)
\*   neterr    the request raises (connection error, timeout, or the adapter's
\*             retries of a 500/502/503/504 exhausted)
FailKinds == {"malformed", "r429", "status", "neterr"}

\* Texts the service may generate for a script prompt and for the brief.
ScriptTexts == {"", "text"}
BriefTexts == {"", "text", "#text"}

\* Texts the service may generate for the topic-selection prompt; the last
\* one stands for a JSON array wrapped in a Markdown json code fence.
FencedFive == "(fence)json[cn,sp,g1,g2,g3](fence)"
SelectTexts ==
    {"", "garbage", "Here you go: [g1,g2]", "null", "7", "[]",
     "[g1,g2]", FencedFive}

Texts(p) ==
    IF p = "select" THEN SelectTexts
    ELSE IF p = "brief" THEN BriefTexts
    ELSE ScriptTexts

Answers(p) ==
    {[kind |-> "ok", text |-> t] : t \in Texts(p)}
    \cup {[kind |-> k, text |-> None] : k \in FailKinds}

\* The request call_gemini posts, by the prompt it carries.
GenOp(p) ==
    CASE p = "select" -> "gen_select"
      [] p = "brief" -> "gen_brief"
      [] p = "cn_script" -> "gen_cn"
      [] OTHER -> "gen_en"

\* Faulty variant of Retried: an error status is retried as well.
RetriedAnyFailure(kind) == kind # "ok"

\* Does the loop body "continue" (or fall through to the next iteration)
\* after this response?
Retried(kind) == kind \in {"r429", "malformed", "neterr"}

\* Faulty variant of SleepAfter: the rate-limit wait does not grow with the attempt.
SleepAfterFlat(kind, att) ==
    IF kind = "r429" THEN <<RateLimitBase>>
    ELSE IF kind \in {"malformed", "neterr"} THEN <<NetErrorSleep>>
    ELSE <<>>

\* The sleep the loop body makes after this response, <<>> when none.
SleepAfter(kind, att) ==
    IF kind = "r429" THEN <<(att + 1) * RateLimitBase>>
    ELSE IF kind \in {"malformed", "neterr"} THEN <<NetErrorSleep>>
    ELSE <<>>

\* Faulty variant of InLoop: the loop has no last attempt.
InLoopForever(a) == TRUE

\* "for attempt in range(3)": the loop body runs for attempt a
InLoop(a) == a < MaxAttempts

\* call_gemini: one iteration of the loop; the function returns when the
\* response is a 200, an error status, or the last attempt has been used.
GeminiAttempt ==
    /\ pc \in GenPcs
    /\ ret = Pending
    /\ InLoop(attempt)
    /\ \E a \in Answers(pc) :
           /\ resps' = Append(resps, a.kind)
           /\ waits' = waits \o SleepAfter(a.kind, attempt)
           /\ IF Retried(a.kind)
              THEN /\ attempt' = attempt + 1
                   /\ ret' = IF InLoop(attempt + 1) THEN Pending ELSE None
              ELSE /\ attempt' = attempt
                   /\ ret' = a.text
    /\ ops' = ops \cup {GenOp(pc)}
    /\ timeline' = IF resps = <<>> THEN Append(timeline, <<"call", GenOp(pc)>>)
                   ELSE timeline
    /\ UNCHANGED <<pc, feeds, search, api, headlines, raw, topics, data, txt, cn, en,
                   feedIdx, combined, fstate, results, files, sent, stages,
                   entry, hours, recent, sched, raised>>

(***************************************************************************)
(* PIPELINE: step2_select_topics                                           *)
(***************************************************************************)
\* A parsed JSON value: an array of strings, null, or a number.
JsonArray(v) == [k |-> "array", v |-> v]
JsonNull == [k |-> "null", v |-> <<>>]
JsonNumber == [k |-> "number", v |-> <<>>]
JsonError == [k |-> "raise", v |-> <<>>]

FiveTopics == <<"cn", "sp", "g1", "g2", "g3">>
Topics == {FiveTopics[i] : i \in 1..Len(FiveTopics)}

\* raw.replace("```json", "").replace("```", "").strip()
Unfence(r) == IF r = FencedFive THEN "[cn,sp,g1,g2,g3]" ELSE r

\* json.loads
Loads(text) ==
    CASE text = "[]" -> JsonArray(<<>>)
      [] text = "[g1,g2]" -> JsonArray(<<"g1", "g2">>)
      [] text = "[cn,sp,g1,g2,g3]" -> JsonArray(FiveTopics)
      [] text = "null" -> JsonNull
      [] text = "7" -> JsonNumber
      [] OTHER -> JsonError

\* Faulty variant of TruthyText: only None counts as false.
TruthyTextNotNone(t) == t # None

\* Python truth value of a text and of a parsed JSON value
TruthyText(t) == t # None /\ t # ""
Truthy(j) == (j.k = "array" /\ j.v # <<>>) \/ j.k = "number"

\* Faulty variant of step2_select_topics: a parse error falls back to a default
\* topic instead of the empty list.
step2_default_on_error(r) ==
    IF r = None \/ r = "" THEN [k |-> "array", v |-> <<>>]
    ELSE LET j == Loads(Unfence(r))
         IN IF j.k = "raise" THEN [k |-> "array", v |-> <<"g1">>] ELSE j

\* step2_select_topics, given what call_gemini returned
step2_select_topics(r) ==
    IF ~TruthyText(r) THEN JsonArray(<<>>)
    ELSE LET j == Loads(Unfence(r))
         IN IF j.k = "raise" THEN JsonArray(<<>>) ELSE j

\* step2 returns; job: "if not topics: return"; step3 is entered, logs
\* len(topics) (a TypeError for a number, caught by job) and submits one
\* future per topic.
SelectReturn ==
    /\ pc = "select"
    /\ ret # Pending
    /\ raw' = ret
    /\ topics' = step2_select_topics(ret)
    /\ IF ~Truthy(topics')
       THEN /\ pc' = "FAILED"
            /\ UNCHANGED <<stages, fstate, raised>>
       ELSE /\ stages' = Append(stages, "research")
            /\ IF topics'.k = "array"
               THEN /\ pc' = "research"
                    /\ UNCHANGED raised
                    /\ fstate' = [i \in 1..Len(topics'.v) |->
                                     [st |-> "queued", res |-> <<>>]]
               ELSE /\ pc' = "FAILED"
                    /\ raised' = "research"
                    /\ UNCHANGED fstate
    /\ ret' = Pending
    /\ attempt' = 0
    /\ waits' = <<>>
    /\ resps' = <<>>
    /\ timeline' = Append(timeline, <<"ret", GenOp(pc)>>)
    /\ UNCHANGED <<feeds, search, api, headlines, data, txt, cn, en, feedIdx,
                   combined, results, files, sent, ops, entry, hours, recent,
                   sched>>

(***************************************************************************)
(* PIPELINE: fetch_details, step3_deep_research                            *)
(***************************************************************************)
\* ThreadPoolExecutor(max_workers=3)
MaxWorkers == 3
\* if valid >= 3: break
MaxExcerpts == 3

\* An entry of the topic search feed: its age and its source title.
SearchEntry(age, src) == [published |-> age, src |-> src]

\* The topic search of the pipeline specification: no recent excerpt for
\* any topic (search down, no entry, or stale entries only); or excerpts for
\* four topics and none for g3.
NothingRecent ==
    [t \in Topics |->
        CASE t = "cn" -> FeedDown
          [] t = "g1" -> FeedOf(<<SearchEntry(30, "BBC"), SearchEntry(26, "AP")>>)
          [] OTHER -> FeedOf(<<>>)]
FourOfFive ==
    [t \in Topics |->
        CASE t = "cn" -> FeedOf(<<SearchEntry(2, "Reuters")>>)
          [] t = "sp" -> FeedOf(<<SearchEntry(30, "BBC"), SearchEntry(3, "ESPN")>>)
          [] t = "g1" -> FeedOf(<<SearchEntry(1, "AP"), SearchEntry(2, "BBC"),
                                  SearchEntry(3, "FT"), SearchEntry(4, "CNN")>>)
          [] t = "g2" -> FeedOf(<<SearchEntry(NoTime, "Unknown")>>)
          [] OTHER -> FeedDown]
JobSearch == {NothingRecent, FourOfFive}

\* The loop "for e in d.entries" of fetch_details: the "- {src}: {summary}"
\* lines it adds, from valid lines already added.
RECURSIVE FetchLines(_, _)
FetchLines(es, valid) ==
    IF es = <<>> THEN <<>>
    ELSE IF is_recent(Head(es), 24)
         THEN <<Head(es).src>>
              \o (IF valid + 1 >= MaxExcerpts THEN <<>>
                  ELSE FetchLines(Tail(es), valid + 1))
         ELSE FetchLines(Tail(es), valid)

\* Faulty variant of fetch_details: the block is returned without "if valid > 0".
fetch_details_any(topic, feed) ==
    IF ~feed.ok \/ feed.entries = <<>> THEN <<>>
    ELSE <<topic>> \o FetchLines(feed.entries, 0)

\* fetch_details: the block of a topic as the sequence of its lines, the
\* first naming the topic; <<>> stands for the empty string.
fetch_details(topic, feed) ==
    IF ~feed.ok \/ feed.entries = <<>> THEN <<>>
    ELSE LET lines == FetchLines(feed.entries, 0)
         IN IF Len(lines) > 0 THEN <<topic>> \o lines ELSE <<>>

Running == {i \in DOMAIN fstate : fstate[i].st = "running"}

\* Faulty variant of HasFreeThread: a thread for every submitted item.
HasFreeThreadAlways(n) == TRUE

\* ThreadPoolExecutor(max_workers=3): with n items running, a thread is free
\* (or can still be created) for another one.
HasFreeThread(n) == n < MaxWorkers

\* A pool thread takes the oldest queued work item.
WorkerStart ==
    /\ pc = "research"
    /\ HasFreeThread(Cardinality(Running))
    /\ \E i \in DOMAIN fstate :
           /\ fstate[i].st = "queued"
           /\ \A j \in 1..(i - 1) : fstate[j].st # "queued"
           /\ fstate' = [fstate EXCEPT ![i].st = "running"]
    /\ UNCHANGED <<pc, feeds, search, api, headlines, raw, topics, data, txt, cn, en,
                   feedIdx, combined, attempt, waits, resps, ret, results,
                   files, sent, stages, ops, entry, hours, recent,
                   sched, timeline, raised>>

\* A pool thread completes fetch_details for its topic.
WorkerFinish ==
    /\ pc = "research"
    /\ \E i \in Running :
           fstate' = [fstate EXCEPT
                         ![i] = [st |-> "finished",
                                 res |-> fetch_details(topics.v[i],
                                                       search[topics.v[i]])]]
    /\ ops' = ops \cup {"fetch"}
    /\ UNCHANGED <<pc, feeds, search, api, headlines, raw, topics, data, txt, cn, en,
                   feedIdx, combined, attempt, waits, resps, ret, results,
                   files, sent, stages, entry, hours, recent,
                   sched, timeline, raised>>

\* Faulty variant of KeepResult: every result is appended.
KeepAnyResult(res) == TRUE

\* "if res:" a block that is not the empty string
KeepResult(res) == res # <<>>

\* The main thread: as_completed yields a finished future;
\* "if res: results.append(res)".
Collect ==
    /\ pc = "research"
    /\ \E i \in DOMAIN fstate :
           /\ fstate[i].st = "finished"
           /\ fstate' = [fstate EXCEPT ![i].st = "collected"]
           /\ results' = IF KeepResult(fstate[i].res)
                         THEN Append(results, fstate[i].res)
                         ELSE results
    /\ UNCHANGED <<pc, feeds, search, api, headlines, raw, topics, data, txt, cn, en,
                   feedIdx, combined, attempt, waits, resps, ret,
                   files, sent, stages, ops, entry, hours, recent,
                   sched, timeline, raised>>

\* "\n".join(results): the lines of the blocks in order, an empty line
\* between two blocks.
RECURSIVE JoinBlocks(_)
JoinBlocks(rs) ==
    IF rs = <<>> THEN <<>>
    ELSE IF Len(rs) = 1 THEN rs[1]
    ELSE rs[1] \o <<"">> \o JoinBlocks(Tail(rs))

\* step3 returns once as_completed is exhausted (None, written <<>>, when
\* results is empty); job: "if not data: return"; step4 is entered and makes
\* its first call.
ResearchReturn ==
    /\ pc = "research"
    /\ \A i \in DOMAIN fstate : fstate[i].st = "collected"
    /\ data' = IF results = <<>> THEN <<>> ELSE JoinBlocks(results)
    /\ IF ~NonEmpty(data')
       THEN /\ pc' = "FAILED"
            /\ UNCHANGED stages
       ELSE /\ pc' = "brief"
            /\ stages' = Append(stages, "write")
    /\ fstate' = <<>>
    /\ results' = <<>>
    /\ UNCHANGED <<feeds, search, api, headlines, raw, topics, txt, cn, en, feedIdx,
                   combined, attempt, waits, resps, ret, files, sent, ops,
                   entry, hours, recent, sched, timeline, raised>>

(***************************************************************************)
(* PIPELINE: step4_write_scripts                                           *)
(***************************************************************************)
\* time.sleep(30) between two calls
Cooldown == 30

\* Faulty variant of CooldownAfter: the next call follows at once.
NoCooldownAfter(p) == <<>>

\* "Cooling down 30s...": time.sleep(30) follows the brief call and the
\* Chinese call; step4 returns right after the English call.
CooldownAfter(p) ==
    IF p \in {"brief", "cn_script"} THEN << <<"sleep", Cooldown>> >> ELSE <<>>

\* text = call_gemini(p_brief, api_url); cooldown; the Chinese call starts.
BriefReturn ==
    /\ pc = "brief"
    /\ ret # Pending
    /\ txt' = ret
    /\ pc' = "cn_script"
    /\ ret' = Pending
    /\ attempt' = 0
    /\ waits' = <<>>
    /\ resps' = <<>>
    /\ timeline' = Append(timeline, <<"ret", GenOp(pc)>>) \o CooldownAfter(pc)
    /\ UNCHANGED <<feeds, search, api, headlines, raw, topics, data, cn, en, feedIdx,
                   combined, fstate, results, files, sent, stages, ops,
                   entry, hours, recent, sched, raised>>

\* cn = call_gemini(p_cn, api_url); cooldown; the English call starts.
CnReturn ==
    /\ pc = "cn_script"
    /\ ret # Pending
    /\ cn' = ret
    /\ pc' = "en_script"
    /\ ret' = Pending
    /\ attempt' = 0
    /\ waits' = <<>>
    /\ resps' = <<>>
    /\ timeline' = Append(timeline, <<"ret", GenOp(pc)>>) \o CooldownAfter(pc)
    /\ UNCHANGED <<feeds, search, api, headlines, raw, topics, data, txt, en, feedIdx,
                   combined, fstate, results, files, sent, stages, ops,
                   entry, hours, recent, sched, raised>>

\* Faulty variant of ScriptsComplete: one script is enough.
ScriptsCompleteEither(c, e) == TruthyText(c) \/ TruthyText(e)

\* job: "if c and e"
ScriptsComplete(c, e) == TruthyText(c) /\ TruthyText(e)

\* en = call_gemini(p_en, api_url); step4 returns; job: "if c and e:
\* asyncio.run(send_to_user(txt, c, e))", else "Scripts incomplete".
EnReturn ==
    /\ pc = "en_script"
    /\ ret # Pending
    /\ en' = ret
    /\ IF ScriptsComplete(cn, en')
       THEN /\ pc' = "ensure_ffmpeg"
            /\ stages' = Append(stages, "produce")
       ELSE /\ pc' = "FAILED"
            /\ UNCHANGED stages
    /\ ret' = Pending
    /\ attempt' = 0
    /\ waits' = <<>>
    /\ resps' = <<>>
    /\ timeline' = Append(timeline, <<"ret", GenOp(pc)>>) \o CooldownAfter(pc)
    /\ UNCHANGED <<feeds, search, api, headlines, raw, topics, data, txt, cn, feedIdx,
                   combined, fstate, results, files, sent, ops,
                   entry, hours, recent, sched, raised>>

(***************************************************************************)
(* PRODUCTION: send_to_user                                                *)
(***************************************************************************)
\* "if not ensure_ffmpeg(): return": without ffmpeg send_to_user returns
\* and job ends having delivered nothing.
EnsureFfmpeg ==
    /\ pc = "ensure_ffmpeg"
    /\ \E ok \in BOOLEAN : pc' = IF ok THEN "synth_cn" ELSE "FAILED"
    /\ UNCHANGED <<feeds, search, api, headlines, raw, topics, data, txt, cn, en,
                   feedIdx, combined, attempt, waits, resps, ret, fstate,
                   results, files, sent, stages, ops, entry, hours, recent,
                   sched, timeline, raised>>

\* Faulty variant of OnResult: a failed call is passed over.
OnResultIgnored(ok, next) == next

\* Where the run goes after a call of send_to_user: on when the call
\* succeeded, to the except clause of job() when it raised.
OnResult(ok, next) == IF ok THEN next ELSE "FAILED"

\* await edge_tts.Communicate(cn, VOICE_CN).save(f_cn): the file is written,
\* or the call raises (job logs "Critical Job Error") with the file written
\* in part or not at all.
SynthCn ==
    /\ pc = "synth_cn"
    /\ \E ok \in BOOLEAN, partial \in BOOLEAN :
           /\ pc' = OnResult(ok, "synth_en")
           /\ raised' = IF ok THEN raised ELSE "synth"
           /\ files' = IF ok \/ partial THEN files \cup {"cn.mp3"} ELSE files
    /\ ops' = ops \cup {"synth"}
    /\ UNCHANGED <<feeds, search, api, headlines, raw, topics, data, txt, cn, en,
                   feedIdx, combined, attempt, waits, resps, ret, fstate,
                   results, sent, stages, entry, hours, recent,
                   sched, timeline>>

\* await edge_tts.Communicate(en, VOICE_EN).save(f_en)
SynthEn ==
    /\ pc = "synth_en"
    /\ \E ok \in BOOLEAN, partial \in BOOLEAN :
           /\ pc' = OnResult(ok, "transcode")
           /\ raised' = IF ok THEN raised ELSE "synth"
           /\ files' = IF ok \/ partial THEN files \cup {"en.mp3"} ELSE files
    /\ ops' = ops \cup {"synth"}
    /\ UNCHANGED <<feeds, search, api, headlines, raw, topics, data, txt, cn, en,
                   feedIdx, combined, attempt, waits, resps, ret, fstate,
                   results, sent, stages, entry, hours, recent,
                   sched, timeline>>

\* subprocess.run(["ffmpeg", "-y", ...], check=True): final.mp3 is written,
\* or CalledProcessError is raised; then the Telegram application is built.
Transcode ==
    /\ pc = "transcode"
    /\ \E ok \in BOOLEAN, partial \in BOOLEAN :
           /\ files' = IF ok \/ partial THEN files \cup {"final.mp3"} ELSE files
           /\ pc' = OnResult(ok, "send_text")
           /\ stages' = IF pc' = "send_text" THEN Append(stages, "publish")
                        ELSE stages
           /\ raised' = IF ok THEN raised ELSE "ffmpeg"
    /\ ops' = ops \cup {"transcode"}
    /\ UNCHANGED <<feeds, search, api, headlines, raw, topics, data, txt, cn, en,
                   feedIdx, combined, attempt, waits, resps, ret, fstate,
                   results, sent, entry, hours, recent, sched, timeline>>

\* safe = text.replace("#", "")
Safe(t) == IF t = "#text" THEN "text" ELSE t

\* Outcomes of "async with app: await app.initialize(); if text: try
\* send_message(Markdown) except: send_message()":
\*   init_fail   entering the application raises
\*   no_text     text is None or empty: nothing is sent
\*   md_ok       the formatted message is accepted
\*   plain_ok    the formatted message is rejected, the plain one accepted
\*   plain_fail  both sends raise
TextOutcomes(text) ==
    IF TruthyText(text) THEN {"init_fail", "md_ok", "plain_ok", "plain_fail"}
    ELSE {"init_fail", "no_text"}

\* Faulty variant of TextSends: a rejected formatted message is not followed
\* by the plain one.
TextSendsNoFallback(o, safe) ==
    CASE o = "md_ok" -> <<<<"message", "Markdown", safe, "accepted">>>>
      [] o \in {"plain_ok", "plain_fail"} ->
             <<<<"message", "Markdown", safe, "rejected">>>>
      [] OTHER -> <<>>

\* The send_message requests an outcome stands for, with their results.
TextSends(o, safe) ==
    CASE o = "md_ok" -> <<<<"message", "Markdown", safe, "accepted">>>>
      [] o = "plain_ok" -> <<<<"message", "Markdown", safe, "rejected">>,
                             <<"message", "plain", safe, "accepted">>>>
      [] o = "plain_fail" -> <<<<"message", "Markdown", safe, "rejected">>,
                               <<"message", "plain", safe, "rejected">>>>
      [] OTHER -> <<>>

SendText ==
    /\ pc = "send_text"
    /\ \E o \in TextOutcomes(txt) :
           /\ pc' = IF o \in {"init_fail", "plain_fail"} THEN "FAILED"
                    ELSE "send_audio"
           /\ sent' = sent \o TextSends(o, Safe(txt))
           /\ raised' = IF o \in {"init_fail", "plain_fail"} THEN "telegram"
                        ELSE raised
           /\ ops' = IF o \in {"init_fail", "no_text"} THEN ops
                     ELSE ops \cup {"send"}
    /\ UNCHANGED <<feeds, search, api, headlines, raw, topics, data, txt, cn, en,
                   feedIdx, combined, attempt, waits, resps, ret, fstate,
                   results, files, stages, entry, hours, recent,
                   sched, timeline>>

\* "if f_final.exists(): send_audio(...); f_final.unlink()", then
\* "f_cn.unlink(); f_en.unlink()" and "Job Complete"; a send that raises
\* leaves the three files.
SendAudio ==
    /\ pc = "send_audio"
    /\ IF "final.mp3" \in files
       THEN \E ok \in BOOLEAN :
               /\ sent' = Append(sent, <<"audio", "final.mp3", "",
                                         IF ok THEN "accepted" ELSE "rejected">>)
               /\ ops' = ops \cup {"send"}
               /\ IF ok
                  THEN /\ pc' = "DONE"
                       /\ files' = files \ {"final.mp3", "cn.mp3", "en.mp3"}
                       /\ UNCHANGED raised
                  ELSE /\ pc' = "FAILED"
                       /\ raised' = "telegram"
                       /\ UNCHANGED files
       ELSE /\ pc' = "DONE"
            /\ files' = files \ {"cn.mp3", "en.mp3"}
            /\ UNCHANGED <<sent, ops, raised>>
    /\ UNCHANGED <<feeds, search, api, headlines, raw, topics, data, txt, cn, en,
                   feedIdx, combined, attempt, waits, resps, ret, fstate,
                   results, stages, entry, hours, recent, sched, timeline>>

(***************************************************************************)
(* MAIN: the loop that runs job()                                          *)
(***************************************************************************)
NoJson == JsonArray(<<>>)

\* Faulty variant of MainThreadIdle: job() is started without waiting for
\* the run in progress.
MainThreadAny(p) == TRUE

\* job() is called on the main thread, by "job()" under RUN_NOW and by
\* schedule.run_pending(); the thread makes the next call only once it is
\* back from the previous one.
MainThreadIdle(p) == p = "idle"

\* job: log, sleep(5), enter the try block.  The feeds hold what they hold
\* at that time.
Enter(by) ==
    /\ pc' = "get_api"
    /\ feeds' \in JobWorlds
    /\ search' \in JobSearch
    /\ trigger' = by
    /\ active' = active + 1
    /\ UNCHANGED <<api, headlines, raw, topics, data, txt, cn, en, feedIdx,
                   combined, attempt, waits, resps, ret, fstate, results,
                   files, sent, stages, ops, entry, hours, recent, timeline,
                   raised>>

\* schedule.every().day.at("03:00").do(job): the time of the daily job comes,
\* whatever the main thread is doing.
DailyTime ==
    /\ ~due
    /\ due' = TRUE
    /\ UNCHANGED <<pc, feeds, search, api, headlines, raw, topics, data, txt, cn,
                   en, feedIdx, combined, attempt, waits, resps, ret, fstate,
                   results, files, sent, stages, ops, entry, hours, recent,
                   main, trigger, active, timeline, raised>>

\* "if os.getenv("RUN_NOW", "false").lower() == "true": job()", then the
\* main thread goes on to the loop.
RunNow ==
    /\ main = "run_now"
    /\ MainThreadIdle(pc)
    /\ main' = "loop"
    /\ \E run_now \in BOOLEAN :
           IF run_now
           THEN Enter("manual") /\ UNCHANGED due
           ELSE UNCHANGED <<pc, feeds, search, api, headlines, raw, topics, data,
                            txt, cn, en, feedIdx, combined, attempt, waits,
                            resps, ret, fstate, results, files, sent, stages,
                            ops, entry, hours, recent, due, trigger, active,
                            timeline, raised>>

\* "while True: schedule.run_pending(); time.sleep(60)": the loop calls
\* job() when the daily job is due.
JobStart ==
    /\ main = "loop"
    /\ due
    /\ MainThreadIdle(pc)
    /\ Enter("schedule")
    /\ UNCHANGED <<main, due>>

\* Faulty variant of Returns: the failure of a run is not caught by job().
ReturnsUnlessFailed(p) == p = "DONE"

\* job() returns to its caller from the end of send_to_user, from an early
\* return, and from its except clause.
Returns(p) == p \in {"DONE", "FAILED"}

\* job() has returned (or logged its exception) to its caller; the locals of
\* the run are gone.  The schedule sets the next time of the daily job when
\* the call it made is back.
JobReturn ==
    /\ Returns(pc)
    /\ pc' = "idle"
    /\ api' = None
    /\ headlines' = <<>>
    /\ raw' = Pending
    /\ topics' = NoJson
    /\ data' = <<>>
    /\ txt' = None
    /\ cn' = None
    /\ en' = None
    /\ sent' = <<>>
    /\ stages' = <<>>
    /\ ops' = {}
    /\ timeline' = <<>>
    /\ raised' = "none"
    /\ trigger' = "none"
    /\ active' = active - 1
    /\ due' = IF trigger = "schedule" THEN FALSE ELSE due
    /\ UNCHANGED <<feeds, search, feedIdx, combined, attempt, waits, resps, ret,
                   fstate, results, files, entry, hours, recent, main>>

(***************************************************************************)
(* is_recent applied to one entry                                          *)
(***************************************************************************)
\* hours arguments: 24 as at both call sites, and a wider window
HoursArgs == {24, 48}
RecentEntries ==
    [title : {<<"A">>}, published : (0..MaxAge) \cup {NoTime, BadTime}]

IsRecentCall ==
    /\ pc = "is_recent"
    /\ recent' = IF is_recent(entry, hours) THEN "True" ELSE "False"
    /\ pc' = "returned"
    /\ UNCHANGED <<feeds, search, api, headlines, raw, topics, data, txt, cn, en,
                   feedIdx, combined, attempt, waits, resps, ret, fstate,
                   results, files, sent, stages, ops, entry, hours,
                   sched, timeline, raised>>

(***************************************************************************)
(* Specifications                                                          *)
(***************************************************************************)
JobLocals ==
    /\ api = None
    /\ headlines = <<>>
    /\ raw = Pending
    /\ topics = NoJson
    /\ data = <<>>
    /\ txt = None
    /\ cn = None
    /\ en = None
    /\ feedIdx = 0
    /\ combined = <<>>
    /\ attempt = 0
    /\ waits = <<>>
    /\ resps = <<>>
    /\ ret = Pending
    /\ fstate = <<>>
    /\ results = <<>>
    /\ sent = <<>>
    /\ timeline = <<>>
    /\ raised = "none"

\* The locals of a run that has not started, and an empty output directory.
InitLocals ==
    /\ JobLocals
    /\ files = {}

\* The main thread inside the job() that the loop called.
InJob ==
    /\ main = "loop"
    /\ due = TRUE
    /\ trigger = "schedule"
    /\ active = 1

NoRecentCall ==
    /\ entry = [title |-> <<"A">>, published |-> 0]
    /\ hours = 24
    /\ recent = "unset"

\* The process after start-up: keep_alive() has started the thread that
\* serves the health page, the daily job is registered, and the main thread
\* is about to test RUN_NOW.
Init ==
    /\ pc = "idle"
    /\ main = "run_now"
    /\ due = FALSE
    /\ trigger = "none"
    /\ active = 0
    /\ feeds = AllDown
    /\ search = NothingRecent
    /\ stages = <<>>
    /\ ops = {}
    /\ InitLocals
    /\ NoRecentCall

Next ==
    \/ DailyTime
    \/ RunNow
    \/ JobStart
    \/ GetApiUrl
    \/ ScanFeed
    \/ ScanReturn
    \/ GeminiAttempt
    \/ SelectReturn
    \/ WorkerStart
    \/ WorkerFinish
    \/ Collect
    \/ ResearchReturn
    \/ BriefReturn
    \/ CnReturn
    \/ EnReturn
    \/ EnsureFfmpeg
    \/ SynthCn
    \/ SynthEn
    \/ Transcode
    \/ SendText
    \/ SendAudio
    \/ JobReturn

Spec == Init /\ [][Next]_vars

\* step1_scan_headlines alone, over every content of the feeds within the
\* bound: job() has found the api url and enters step1.
InitScan ==
    /\ pc = "scan"
    /\ feeds \in ScanWorlds
    /\ search = NothingRecent
    /\ stages = <<"scan">>
    /\ ops = {"models"}
    /\ InJob
    /\ InitLocals
    /\ NoRecentCall

NextScan == ScanFeed \/ ScanReturn

\* The steps of a run of job(), from its first statement to its return.
RunStep ==
    \/ GetApiUrl
    \/ ScanFeed
    \/ ScanReturn
    \/ GeminiAttempt
    \/ SelectReturn
    \/ WorkerStart
    \/ WorkerFinish
    \/ Collect
    \/ ResearchReturn
    \/ BriefReturn
    \/ CnReturn
    \/ EnReturn
    \/ EnsureFfmpeg
    \/ SynthCn
    \/ SynthEn
    \/ Transcode
    \/ SendText
    \/ SendAudio
    \/ JobReturn

\* One run of job() alone, from its first statement until it has returned:
\* the loop has called job(), the feeds hold what they hold, and the output
\* directory is empty or holds the files an earlier run has left.
InitJob ==
    /\ pc = "get_api"
    /\ feeds \in JobWorlds
    /\ search \in JobSearch
    /\ stages = <<>>
    /\ ops = {}
    /\ InJob
    /\ JobLocals
    /\ files \in {{}, {"cn.mp3", "en.mp3", "final.mp3"}}
    /\ NoRecentCall

\* The threads keep running and every external call returns (with an
\* answer, an error or a timeout): a step of the run that can be taken is
\* taken.
SpecJob == InitJob /\ [][RunStep]_vars /\ WF_vars(RunStep)

SpecScan == InitScan /\ [][NextScan]_vars

\* is_recent alone, over every entry and hours argument within the bounds.
InitRecent ==
    /\ pc = "is_recent"
    /\ feeds = AllDown
    /\ search = NothingRecent
    /\ stages = <<>>
    /\ ops = {}
    /\ InJob
    /\ InitLocals
    /\ entry \in RecentEntries
    /\ hours \in HoursArgs
    /\ recent = "unset"

NextRecent == IsRecentCall

SpecRecent == InitRecent /\ [][NextRecent]_vars

(***************************************************************************)
(* Properties                                                              *)
(***************************************************************************)
StageOrder == <<"scan", "select", "research", "write", "produce", "publish">>

IsPrefix(s, t) == Len(s) <= Len(t) /\ \A i \in 1..Len(s) : s[i] = t[i]

Entered(stage) == \E i \in 1..Len(stages) : stages[i] = stage

\* The positions of job() inside each stage.
StagePcs(stage) ==
    CASE stage = "scan" -> {"scan"}
      [] stage = "select" -> {"select"}
      [] stage = "research" -> {"research"}
      [] stage = "write" -> {"brief", "cn_script", "en_script"}
      [] stage = "produce" -> {"ensure_ffmpeg", "synth_cn", "synth_en", "transcode"}
      [] OTHER -> {"send_text", "send_audio"}

\* The stage each external operation belongs to.
OpStage(op) ==
    CASE op = "feed" -> "scan"
      [] op = "gen_select" -> "select"
      [] op = "fetch" -> "research"
      [] op \in {"gen_brief", "gen_cn", "gen_en"} -> "write"
      [] op \in {"synth", "transcode"} -> "produce"
      [] OTHER -> "publish"

NarrationOps == {"gen_brief", "gen_cn", "gen_en"}
ProductionOps == {"synth", "transcode", "send"}

\* C1: in every run the stages are entered in the order scan, select,
\* research, write, produce, publish; an operation is carried out only once
\* its stage has been entered; a stage is entered only when the stage before
\* it returned a non-empty result (headlines, topics, research data, both
\* narration scripts); and a run that has left its last entered stage without
\* finishing the publication is in the failed state.
C1_StagesInOrderFailFast ==
    /\ IsPrefix(stages, StageOrder)
    /\ \A op \in ops \ {"models"} : Entered(OpStage(op))
    /\ Entered("select") => headlines # <<>>
    /\ Entered("research") => topics.k # "null" /\ topics # [k |-> "array", v |-> <<>>]
    /\ Entered("write") => data # <<>>
    /\ Entered("produce") => cn \notin {None, ""} /\ en \notin {None, ""}
    /\ stages # <<>> =>
           \/ pc \in StagePcs(stages[Len(stages)])
           \/ pc = "FAILED"
           \/ pc = "DONE" /\ stages = StageOrder
    /\ stages = <<>> => pc \in {"idle", "get_api", "FAILED"}

\* C1 witness: a run that failed in the write stage for want of the English
\* script, after the Chinese one was written.
C1_Witness ==
    /\ pc = "FAILED"
    /\ stages = <<"scan", "select", "research", "write">>
    /\ cn = "text"
    /\ en = None
    /\ "gen_en" \in ops

\* C2: when the answer to the topic-selection request is missing, is not
\* JSON, or is the empty array, step2_select_topics returns the empty list
\* and the run fails in the select stage without any fetch_details call.
C2_BadSelectionFails ==
    raw \in {None, "", "garbage", "Here you go: [g1,g2]", "[]"} =>
        /\ topics = [k |-> "array", v |-> <<>>]
        /\ pc = "FAILED"
        /\ stages = <<"scan", "select">>
        /\ "fetch" \notin ops

\* C2 witness: the run failed on an answer that is not JSON.
C2_Witness == raw = "garbage" /\ pc = "FAILED" /\ "gen_select" \in ops

\* An entry the recency filter of the code lets through.
Accepted(e) == e.published \in {NoTime, BadTime} \/ e.published < 26

NoExcerpt(t) ==
    \A i \in 1..Len(search[t].entries) : ~Accepted(search[t].entries[i])

\* C3: when the research stage is over and no topic had a single excerpt,
\* step3_deep_research returned no data, the run is failed, and no narration
\* generation call was made (the write stage was not entered).
C3_CircuitBreaker ==
    (/\ Entered("research")
     /\ pc # "research"
     /\ topics.k = "array"
     /\ \A i \in 1..Len(topics.v) : NoExcerpt(topics.v[i])) =>
        /\ data = <<>>
        /\ pc = "FAILED"
        /\ ~Entered("write")
        /\ ops \cap NarrationOps = {}

\* C3 witness: five topics were searched, none had a recent excerpt, and the
\* run failed in the research stage.
C3_Witness ==
    /\ pc = "FAILED"
    /\ stages = <<"scan", "select", "research">>
    /\ topics.v = FiveTopics
    /\ search = NothingRecent
    /\ "fetch" \in ops

GenerationOps == {"gen_select"} \cup NarrationOps

AllFeedsFail == \A c \in Cats : ~feeds[c].ok

\* C4 (as claimed): in a run where every feed fetch fails, the run goes from
\* scanning straight to failed and no request at all has been made to the
\* generation service or to the speech-synthesis service.
C4_NoServiceRequest ==
    (AllFeedsFail /\ Entered("scan") /\ pc # "scan") =>
        /\ pc = "FAILED"
        /\ stages = <<"scan">>
        /\ ops \cap (GenerationOps \cup {"models", "synth"}) = {}

\* C4 (amended): in a run where every feed fetch fails, the run goes from
\* scanning straight to failed with no content-generation request and no
\* speech-synthesis request; the model-listing request get_api_url made
\* before scanning is the only request to the generation service.
C4_NoGenerationRequest ==
    (AllFeedsFail /\ Entered("scan") /\ pc # "scan") =>
        /\ pc = "FAILED"
        /\ stages = <<"scan">>
        /\ ops \cap (GenerationOps \cup {"synth"}) = {}
        /\ ops = {"models", "feed"}

\* C4 witness: all four feeds were fetched, all failed, the run is failed.
C4_Witness ==
    /\ AllFeedsFail
    /\ pc = "FAILED"
    /\ stages = <<"scan">>
    /\ "feed" \in ops

RECURSIVE SumSeq(_)
SumSeq(s) == IF s = <<>> THEN 0 ELSE Head(s) + SumSeq(Tail(s))

\* k rate-limit responses followed by a success
RateLimitedThenOk(k) == [i \in 1..(k + 1) |-> IF i <= k THEN "r429" ELSE "ok"]

\* C5: a call_gemini invocation never makes more than 3 attempts, and one
\* that receives k < 3 rate-limit responses and then a success returns the
\* generated text on attempt k + 1 after waits of 20*1, ..., 20*k seconds,
\* 20*(1 + ... + k) in total.
C5_BackoffThenSuccess ==
    /\ Len(resps) <= 3
    /\ \A k \in 0..2 :
           resps = RateLimitedThenOk(k) =>
               /\ ret \in Texts(pc)
               /\ attempt = k
               /\ waits = [i \in 1..k |-> 20 * i]
               /\ SumSeq(waits) = 20 * ((k * (k + 1)) \div 2)

\* C5 witness: two rate-limit responses, then the text, after 20 s and 40 s.
C5_Witness ==
    /\ resps = <<"r429", "r429", "ok">>
    /\ ret = "text"
    /\ waits = <<20, 40>>

WriteOver == Entered("write") /\ pc \notin StagePcs("write")

\* C7 (as claimed): when any of the three generation calls of step4 has
\* failed, the run is failed and nothing is synthesized, transcoded or sent.
C7_AnyCallFailureFailsRun ==
    (WriteOver /\ (txt = None \/ cn = None \/ en = None)) =>
        pc = "FAILED" /\ ops \cap ProductionOps = {}

\* C7 (amended): when the Chinese or the English script call has failed, the
\* run is failed and nothing is synthesized, transcoded or sent; a failed
\* brief call only leaves the text message out of the delivery.
C7_ScriptFailureFailsRun ==
    /\ (WriteOver /\ (cn = None \/ en = None)) =>
           pc = "FAILED" /\ ops \cap ProductionOps = {}
    /\ txt = None => \A i \in 1..Len(sent) : sent[i][1] # "message"

\* C7 witness: the Chinese call failed, the English one was still made, and
\* the run is failed.
C7_Witness ==
    /\ pc = "FAILED"
    /\ WriteOver
    /\ cn = None
    /\ en = "text"
    /\ "gen_en" \in ops

\* "Select Top 5 HEADLINES" of the selection prompt
SelectionSize == 5

\* The category the selection prompt tags a topic of the model with.
TopicCat(t) ==
    CASE t = "cn" -> "CHINA"
      [] t = "sp" -> "SPORTS"
      [] OTHER -> "WORLD"

\* The mandatory-category check: five topics, one of them about China.
ValidSelection(v) ==
    /\ Len(v) = SelectionSize
    /\ \E i \in 1..Len(v) : TopicCat(v[i]) = "CHINA"

\* C8 (as claimed): once step2_select_topics has returned, a selection that
\* fails the mandatory-category check has been replaced by the empty list,
\* the run is failed and no fetch_details call is made.
C8_InvalidSelectionAborts ==
    (raw # Pending /\ topics.k = "array" /\ ~ValidSelection(topics.v)) =>
        /\ topics.v = <<>>
        /\ pc = "FAILED"
        /\ ~Entered("research")
        /\ "fetch" \notin ops

\* The normalized titles of the accepted entries of es, in order.
RECURSIVE AcceptedTitles(_)
AcceptedTitles(es) ==
    IF es = <<>> THEN <<>>
    ELSE (IF Accepted(Head(es)) THEN <<Head(Head(es).title)>> ELSE <<>>)
         \o AcceptedTitles(Tail(es))

\* The same over the four feeds, in feed order.
RECURSIVE FeedOrderTitles(_)
FeedOrderTitles(i) ==
    IF i > Len(CatOrder) THEN <<>>
    ELSE AcceptedTitles(feeds[CatOrder[i]].entries) \o FeedOrderTitles(i + 1)

\* s without the later occurrences of its elements.
RECURSIVE FirstSeen(_, _)
FirstSeen(s, seen) ==
    IF s = <<>> THEN <<>>
    ELSE IF Head(s) \in seen THEN FirstSeen(Tail(s), seen)
    ELSE <<Head(s)>> \o FirstSeen(Tail(s), seen \cup {Head(s)})

\* C9 (as claimed): the list step1_scan_headlines returns holds exactly one
\* headline per distinct normalized title of the accepted entries, in
\* first-seen (feed) order.
C9_DedupFirstSeen ==
    pc # "scan" =>
        [i \in 1..Len(headlines) |-> headlines[i][2]]
            = FirstSeen(FeedOrderTitles(1), {})

\* C10 (as claimed): for an entry with a parsable published timestamp,
\* is_recent(entry, hours=h) returns False whenever the entry is more than
\* h hours old.
C10_OlderThanWindowRejected ==
    (recent # "unset" /\ entry.published >= 0 /\ entry.published > hours) =>
        recent = "False"

\* The fixed paths send_to_user writes its audio to.
AudioFiles == {"cn.mp3", "en.mp3", "final.mp3"}

\* C11 (as claimed): once send_to_user has started synthesizing, whenever it
\* has ended, normally or by an error, none of cn.mp3, en.mp3, final.mp3
\* remains in the output directory.
C11_NoAudioFileRemains ==
    (pc \in {"DONE", "FAILED"} /\ "synth" \in ops) =>
        files \cap AudioFiles = {}

\* The positions of the requests of one kind in the Telegram log.
Sends(kind) == {i \in 1..Len(sent) : sent[i][1] = kind}

\* C12: in the publish stage a present text brief is sent first, as a
\* Markdown message, and every message precedes the audio; a rejected
\* Markdown message is followed at once by one plain message with the same
\* content, and that is the only plain message; when the plain message is
\* accepted the run goes on to send the audio, so that it fails only if the
\* audio send itself fails and is done only with the audio accepted.
C12_PlainFallbackThenAudio ==
    /\ (pc \in {"send_audio", "DONE"} /\ txt \notin {None, ""}) =>
           /\ sent # <<>>
           /\ sent[1][1] = "message" /\ sent[1][2] = "Markdown"
    /\ \A i \in Sends("audio") : \A j \in Sends("message") : j < i
    /\ \A i \in Sends("message") :
           /\ sent[i][2] = "plain" => i = 2 /\ sent[1][4] = "rejected"
           /\ (sent[i][2] = "Markdown" /\ sent[i][4] = "rejected") =>
                  /\ i < Len(sent)
                  /\ sent[i + 1][1] = "message" /\ sent[i + 1][2] = "plain"
                  /\ sent[i + 1][3] = sent[i][3]
                  /\ sent[i + 1][4] = "accepted" =>
                         /\ pc \in {"send_audio", "DONE", "FAILED"}
                         /\ pc = "FAILED" => Sends("audio") # {}
                         /\ pc = "DONE" =>
                                sent[Len(sent)] =
                                    <<"audio", "final.mp3", "", "accepted">>

\* C12 witness: the Markdown message was rejected, the plain one accepted,
\* the audio sent and the run done.
C12_Witness ==
    /\ pc = "DONE"
    /\ sent = << <<"message", "Markdown", "text", "rejected">>,
                 <<"message", "plain", "text", "accepted">>,
                 <<"audio", "final.mp3", "", "accepted">> >>

\* C13: at most one call of job() is in progress at any time.  Whatever the
\* triggers (RUN_NOW at start-up, the daily time of the schedule, which may
\* come while a run is in progress), job() is entered only when no call of
\* it is in progress, and a call in progress has exactly one caller.
C13_OneRunAtATime ==
    /\ active \in {0, 1}
    /\ active = 0 <=> trigger = "none"
    /\ active = 0 <=> pc = "idle"
    /\ trigger = "manual" => main = "loop"

\* C13 witness: the daily time has come while the run started by RUN_NOW is
\* writing its audio files; the run is still the only one.
C13_Witness ==
    /\ trigger = "manual"
    /\ due
    /\ pc = "synth_en"
    /\ "cn.mp3" \in files
    /\ active = 1

\* The positions of the generation calls in the timeline of the run.
Calls == {i \in 1..Len(timeline) : timeline[i][1] = "call"}

\* Between the call at position i and the later call at position j, the
\* earlier call returns and then a full cooldown is slept.
CooldownBetween(i, j) ==
    \E r \in (i + 1)..(j - 1) : \E k \in (r + 1)..(j - 1) :
        /\ timeline[r] = <<"ret", timeline[i][2]>>
        /\ timeline[k] = <<"sleep", Cooldown>>

\* A generation call is followed by its own return before anything else
\* happens in the timeline: no two calls are in progress together.
OneCallAtATime ==
    \A i \in Calls :
        i < Len(timeline) => timeline[i + 1] = <<"ret", timeline[i][2]>>

\* C14 (as claimed): the generation calls of a run are strictly sequential
\* and between every two of them the earlier call returns and a cooldown of
\* 30 s is slept before the later one starts.
C14_CooldownBetweenAllCalls ==
    /\ OneCallAtATime
    /\ \A i \in Calls : \A j \in Calls : i < j => CooldownBetween(i, j)

\* C14 (amended): the generation calls of a run are strictly sequential, in
\* the order selection, brief, Chinese script, English script, each made
\* once; between every two calls of the write stage the earlier call returns
\* and a cooldown of 30 s is slept before the later one starts; nothing is
\* slept between the selection call and the brief call.
C14_CooldownBetweenScriptCalls ==
    /\ OneCallAtATime
    /\ \A i \in Calls : \A j \in Calls :
           i < j =>
               /\ timeline[i][2] # timeline[j][2]
               /\ timeline[j][2] # "gen_select"
               /\ timeline[i][2] # "gen_en"
               /\ timeline[i][2] = "gen_cn" => timeline[j][2] = "gen_en"
               /\ timeline[i][2] \in NarrationOps => CooldownBetween(i, j)
    /\ \A k \in 1..Len(timeline) :
           timeline[k][1] = "sleep" =>
               /\ timeline[k][2] = Cooldown
               /\ k > 1
               /\ timeline[k - 1] \in {<<"ret", "gen_brief">>, <<"ret", "gen_cn">>}

\* C14 witness: the four calls of a run have been made and have returned,
\* with the two cooldowns of the write stage.
C14_Witness ==
    /\ pc = "ensure_ffmpeg"
    /\ Cardinality(Calls) = 4
    /\ Len(timeline) = 10

\* C15: in step3_deep_research at most 3 fetch_details workers are running
\* at any time, whatever the number of topics; the stage is left (with the
\* evidence or with the empty result that fails the run) only by a step
\* taken when every submitted worker has completed and been collected; and
\* outside the research stage no worker exists.
C15_BoundedPoolJoined ==
    [][/\ Cardinality(Running) <= MaxWorkers
       /\ pc # "research" => fstate = <<>>
       /\ (pc = "research" /\ pc' # "research") =>
              /\ fstate # <<>>
              /\ \A i \in DOMAIN fstate : fstate[i].st = "collected"
              /\ fstate' = <<>>]_vars

\* C15 witness: five topics were submitted, three workers are running and
\* the other two wait for a thread.
C15_Witness ==
    /\ pc = "research"
    /\ Len(fstate) = 5
    /\ Cardinality(Running) = MaxWorkers
    /\ Cardinality({i \in DOMAIN fstate : fstate[i].st = "queued"}) = 2

\* The number of entries of the search feed of topic t that the recency
\* filter lets through.
RecentCount(t) ==
    Cardinality({i \in 1..Len(search[t].entries) :
                     Accepted(search[t].entries[i])})

\* The blocks of the joined research data: the runs of lines between the
\* empty separator lines.
RECURSIVE SplitBlocks(_, _)
SplitBlocks(ls, cur) ==
    IF ls = <<>> THEN <<cur>>
    ELSE IF Head(ls) = "" THEN <<cur>> \o SplitBlocks(Tail(ls), <<>>)
    ELSE SplitBlocks(Tail(ls), Append(cur, Head(ls)))

Done(st) == st \in {"finished", "collected"}

\* The evidence step3_deep_research has returned holds one block for each
\* selected topic with a recent excerpt and for no other, each block with
\* its topic line and 1 to 3 excerpt lines.
BundleExact ==
    data # <<>> =>
        LET bs == SplitBlocks(data, <<>>)
            found == {t \in {topics.v[i] : i \in 1..Len(topics.v)} :
                          RecentCount(t) >= 1}
        IN /\ \A i \in 1..Len(bs) :
                  /\ Len(bs[i]) >= 2
                  /\ Len(bs[i]) <= 1 + MaxExcerpts
                  /\ bs[i][1] \in found
                  /\ Len(bs[i]) - 1 =
                         IF RecentCount(bs[i][1]) > MaxExcerpts
                         THEN MaxExcerpts ELSE RecentCount(bs[i][1])
           /\ \A i \in 1..Len(bs) : \A j \in 1..Len(bs) :
                  bs[i][1] = bs[j][1] => i = j
           /\ Len(bs) = Cardinality(found)

\* The result of a worker is the block of its own topic, empty exactly when
\* the topic has no recent excerpt (search failed, no entry, stale entries).
WorkerLocal ==
    \A i \in DOMAIN fstate :
        Done(fstate[i].st) =>
            /\ fstate[i].res = <<>> <=> RecentCount(topics.v[i]) = 0
            /\ fstate[i].res # <<>> => fstate[i].res[1] = topics.v[i]

\* C16: a worker's failure or empty result is local: the result of each
\* worker is that of its own topic alone, an empty one fails the run only
\* when every result is empty, the evidence returned holds exactly the
\* topics with at least one recent excerpt, each with 1 to 3 excerpts, and
\* a topic whose worker is done is never fetched again.
C16_LocalFailureExactBundle ==
    /\ [](BundleExact /\ WorkerLocal)
    /\ [][\A i \in DOMAIN fstate :
              (Done(fstate[i].st) /\ pc' = "research") =>
                  /\ Done(fstate'[i].st)
                  /\ fstate'[i].res = fstate[i].res]_vars
    /\ [][(pc = "research" /\ pc' = "FAILED") =>
              \A i \in DOMAIN fstate : fstate[i].res = <<>>]_vars

\* C16 witness: five topics were researched, the search for g3 failed, and
\* the evidence of the other four has been returned to job().
C16_Witness ==
    /\ pc = "brief"
    /\ Len(topics.v) = 5
    /\ ~search["g3"].ok
    /\ Len(SplitBlocks(data, <<>>)) = 4

NonEmptyBlock(b) == b # <<>>

\* What step3_deep_research returns when the workers complete in the order
\* in which the topics were submitted.
InOrderData ==
    JoinBlocks(SelectSeq([i \in 1..Len(topics.v) |->
                             fetch_details(topics.v[i], search[topics.v[i]])],
                         NonEmptyBlock))

\* C17 (as claimed): for the topics and the search results of the run, the
\* value step3_deep_research returns is the one value it returns for every
\* order in which the workers complete, that of the submission order
\* included.
C17_SameForEveryOrder ==
    data # <<>> => data = InOrderData

Terminal == {"DONE", "FAILED"}

\* C18: provided the steps of a run keep being taken (every external call
\* returns), a run that has started reaches done or failed; a generation
\* call makes at most 3 requests whatever the answers; and a run in a
\* terminal state stays there until job() returns to the main thread.
C18_RunTerminates ==
    /\ (pc \notin Terminal \cup {"idle"}) ~> (pc \in Terminal)
    /\ [](Len(resps) <= 3 /\ attempt <= 3)
    /\ [][(pc \in Terminal) => (pc' \in {pc, "idle"})]_vars

\* C18 witness: a generation call that met a rate limit, a network failure
\* and a rate limit again has stopped after its third request and returns
\* None to step2_select_topics.
C18_Witness ==
    /\ pc = "select"
    /\ resps = <<"r429", "neterr", "r429">>
    /\ ret = None

\* C19: when the synthesis of either script or the ffmpeg job has failed,
\* the run is failed and no request has been sent to Telegram in it, neither
\* the text brief nor the audio; no send is made while the audio is being
\* produced, and every send of a run comes after its transcoding.
C19_ProductionFailureDeliversNothing ==
    /\ raised \in {"synth", "ffmpeg"} =>
           /\ pc = "FAILED"
           /\ sent = <<>>
           /\ "send" \notin ops
    /\ pc \in StagePcs("produce") => sent = <<>>
    /\ sent # <<>> => {"synth", "transcode"} \subseteq ops

\* C19 witness: both scripts were synthesized, the ffmpeg job failed, and
\* the text brief the run holds has not been sent.
C19_Witness ==
    /\ raised = "ffmpeg"
    /\ pc = "FAILED"
    /\ txt = "text"
    /\ {"cn.mp3", "en.mp3"} \subseteq files
    /\ sent = <<>>

\* C20: a failed run is contained.  Whatever failed (an empty result or an
\* exception caught by job()), job() can return to the main thread and the
\* only step from the failed state is that return; it leaves the main loop
\* idle with no call of job() in progress and nothing of the run kept but
\* the files in the output directory; the loop then starts a run whenever
\* the daily job is due, and a run that starts has the locals of a first
\* run, no stage entered, no operation carried out and nothing sent.
C20_FailureContained ==
    /\ [](pc = "FAILED" => ENABLED JobReturn)
    /\ []((pc = "idle" /\ main = "loop" /\ due) => ENABLED JobStart)
    /\ [][pc = "FAILED" =>
              /\ pc' \in {"FAILED", "idle"}
              /\ pc' = "idle" =>
                     /\ main' = "loop"
                     /\ active' = 0
                     /\ JobLocals'
                     /\ stages' = <<>>
                     /\ ops' = {}]_vars
    /\ [][(pc = "idle" /\ pc' # "idle") =>
              /\ pc' = "get_api"
              /\ JobLocals'
              /\ stages' = <<>>
              /\ ops' = {}
              /\ active' = 1]_vars

\* C20 witness: an earlier run failed in the synthesis of the English
\* script, leaving cn.mp3 behind; the loop has started the next run, which
\* is scanning the feeds with nothing kept from the failed one.
C20_Witness ==
    /\ files = {"cn.mp3"}
    /\ pc = "scan"
    /\ trigger = "schedule"
    /\ stages = <<"scan">>
    /\ sent = <<>>
    /\ raised = "none"

====
